---- MODULE Spec2Model ----
(***************************************************************************)
(* A model of scripts/release_detector.py: the tracking store, the UUP     *)
(* Dump fetcher, the version classifier, detect_new_releases, the build    *)
(* matrix and main.                                                        *)
(*                                                                         *)
(* Time is counted in half hours, so timedelta(hours=1) is OneHour == 2.   *)
(* A title is a sequence of tokens (the words of the title, separated by   *)
(* single spaces in the string it stands for); the regular expressions of  *)
(* _extract_version are modelled by what they match on such a sequence.    *)
(* The WindowsRelease fields that the code only copies (detected_date,     *)
(* language, checksum_sha256, size_bytes) are left out of the records.     *)
(***************************************************************************)
EXTENDS Integers, Sequences, FiniteSets, TLC

VARIABLES
    now,      \* the wall clock, datetime.now(), in half hours
    file,     \* the tracking file on disk
    det,      \* the ReleaseDetector object of the running process, if any
    out,      \* the output file main writes (a sequence of key=value lines)
    ctor,     \* observation: the last construction of a ReleaseDetector
    call,     \* observation: the last detect_new_releases call
    prev,     \* observation: the call before it on the same detector
    mainrun,  \* observation: the last run of main
    runs,     \* observation: the identifiers each run of main returned, in order
    fn,       \* pure-function specifications: which function is applied
    arg,      \* its argument
    res       \* its result

vars == <<now, file, det, out, ctor, call, prev, mainrun, runs, fn, arg, res>>

progVars == <<now, file, det, out, ctor, call, prev, mainrun, runs>>

None == "None"

----------------------------------------------------------------------------
(* Titles.                                                                 *)

\* A word of the title that is no version token and no build number.
W(s) == [k |-> "word", s |-> s, v |-> "", n |-> 0]

\* A standalone token of the shape \d{2}H\d, such as 24H2 or 24h2.
V(s) == [k |-> "ver", s |-> s, v |-> s, n |-> 0]

\* A token that starts with \d{2}H\d and goes on with a word character, such as
\* 24H2x: v is the part the group (\d{2}H\d) captures.
G(s, v) == [k |-> "glued", s |-> s, v |-> v, n |-> 0]

\* An opening parenthesis followed by the five digits of n, such as (26100.
P(n) == [k |-> "paren", s |-> "(", v |-> "", n |-> n]

\* A parenthesised dotted build string, such as (10.0.26100.1000): the digits
\* after the parenthesis are fewer than five.
D(s) == [k |-> "dotted", s |-> s, v |-> "", n |-> 0]

\* str.upper() on the version tokens of the model.
Upper(s) ==
    CASE s = "24h2" -> "24H2"
      [] s = "22h2" -> "22H2"
      [] s = "25h2" -> "25H2"
      [] OTHER -> s

\* str.lower() on the words of the model.
Lower(s) ==
    CASE s = "Insider" -> "insider"
      [] s = "INSIDER" -> "insider"
      [] s = "Preview" -> "preview"
      [] s = "PREVIEW" -> "preview"
      [] s = "Version" -> "version"
      [] s = "VERSION" -> "version"
      [] s = "Windows 11" -> "windows 11"
      [] s = "Windows 10" -> "windows 10"
      [] s = "Update" -> "update"
      [] OTHER -> s

\* The least index of s that satisfies Test, or 0.
FirstIndex(s, Test(_, _)) ==
    LET hits == {i \in 1..Len(s) : Test(s, i)}
    IN  IF hits = {} THEN 0 ELSE CHOOSE i \in hits : \A j \in hits : i <= j

\* re.search(r'version\s+(\d{2}H\d)', title, re.IGNORECASE) matches at i.
DirectAt(title, i) ==
    /\ title[i].k = "word"
    /\ Lower(title[i].s) = "version"
    /\ i < Len(title)
    /\ title[i + 1].k \in {"ver", "glued"}

\* re.search(r'\b(\d{2}H\d)\b', title, re.IGNORECASE) matches at i.
StandaloneAt(title, i) == title[i].k = "ver"

\* re.search(r'\((\d{5})', title) matches at i.
BuildAt(title, i) == title[i].k = "paren"

\* 'insider' in title.lower() or 'preview' in title.lower()
HasInsiderOrPreview(title) ==
    \E i \in 1..Len(title) :
        title[i].k = "word" /\ Lower(title[i].s) \in {"insider", "preview"}

\* Mutant of RangeVersion: the Insider-26H2 range is tested first.
RangeVersionInsiderFirst(build_num) ==
    IF 26220 <= build_num /\ build_num < 27000 THEN "Insider-26H2"
    ELSE IF 26200 <= build_num /\ build_num < 27000 THEN "25H2"
    ELSE IF 26100 <= build_num /\ build_num < 26200 THEN "24H2"
    ELSE IF 28000 <= build_num /\ build_num < 29000 THEN "Insider-28xxx"
    ELSE IF 22621 <= build_num /\ build_num < 23000 THEN "22H2"
    ELSE IF 22631 <= build_num /\ build_num < 23000 THEN "23H2"
    ELSE ""

\* The if/elif chain over the build number ranges; "" when no range matches.
RangeVersion(build_num) ==
    IF 26200 <= build_num /\ build_num < 27000 THEN "25H2"
    ELSE IF 26100 <= build_num /\ build_num < 26200 THEN "24H2"
    ELSE IF 26220 <= build_num /\ build_num < 27000 THEN "Insider-26H2"
    ELSE IF 28000 <= build_num /\ build_num < 29000 THEN "Insider-28xxx"
    ELSE IF 22621 <= build_num /\ build_num < 23000 THEN "22H2"
    ELSE IF 22631 <= build_num /\ build_num < 23000 THEN "23H2"
    ELSE ""

\* _extract_version(title)
ExtractVersion(title) ==
    LET d == FirstIndex(title, DirectAt)
        s == FirstIndex(title, StandaloneAt)
        b == FirstIndex(title, BuildAt)
        r == IF b = 0 THEN "" ELSE RangeVersion(title[b].n)
    IN  IF d # 0 THEN Upper(title[d + 1].v)
        ELSE IF s # 0 THEN Upper(title[s].v)
        ELSE IF r # "" THEN r
        ELSE IF HasInsiderOrPreview(title) THEN "Insider-Preview"
        ELSE "Unknown"

----------------------------------------------------------------------------
(* Releases and the UUP Dump fetcher.                                      *)

\* The download reference built from the identifier.
IsoUrl(build_id) ==
    <<"https://uupdump.net/download.php?id=", build_id,
      "&pack=en-us&edition=professional">>

\* 'retail' if 'Insider' not in title else 'insider' (case-sensitive)
Channel(title) ==
    IF \E i \in 1..Len(title) : title[i].k = "word" /\ title[i].s = "Insider"
    THEN "insider" ELSE "retail"

\* 'Windows 11' in title (case-sensitive)
HasProduct(title) ==
    \E i \in 1..Len(title) : title[i].k = "word" /\ title[i].s = "Windows 11"

\* dict.get(key, default) on a build of the API payload: has is the set of keys
\* the mapping holds.
Get(build, key, default) == IF key \in build.has THEN build[key] ELSE default

\* The WindowsRelease built from a build of the API payload.
MakeRelease(build) ==
    LET build_id == Get(build, "uuid", None)
        title == Get(build, "title", <<>>)
    IN  [build_id |-> build_id,
         build_number |-> Get(build, "build", "Unknown"),
         version |-> ExtractVersion(title),
         title |-> title,
         iso_url |-> IsoUrl(build_id),
         architecture |-> Get(build, "arch", ""),
         channel |-> Channel(title)]

\* int(x) if x.isdigit() else 0, on a key of the builds mapping: a key is the
\* decimal string of n (digits) or a string that is not all digits.
KeyValue(key) == IF key.digits THEN key.n ELSE 0

RECURSIVE InsertByKey(_, _)
\* e put into the sorted sequence s after every entry that does not sort after it.
InsertByKey(s, e) ==
    IF s = <<>> THEN <<e>>
    ELSE IF KeyValue(s[Len(s)].key) <= KeyValue(e.key) THEN Append(s, e)
    ELSE Append(InsertByKey(SubSeq(s, 1, Len(s) - 1), e), s[Len(s)])

RECURSIVE SortedEntries(_)
\* sorted(builds_data.keys(), key=...): a stable sort of the entries, given in
\* the mapping's insertion order, by the numeric value of their keys.
SortedEntries(entries) ==
    IF entries = <<>> THEN <<>>
    ELSE InsertByKey(SortedEntries(SubSeq(entries, 1, Len(entries) - 1)),
                     entries[Len(entries)])

ProcessLimit == 30

\* Mutant of FirstEntries: every entry is processed.
FirstEntriesNoLimit(entries) == SortedEntries(entries)

\* sorted_keys[:30]
FirstEntries(entries) ==
    LET s == SortedEntries(entries)
    IN  SubSeq(s, 1, IF Len(s) < ProcessLimit THEN Len(s) ELSE ProcessLimit)

\* The filter of the loop body: a mapping, for Windows 11 on amd64, not tracked.
Keeps(build, builds) ==
    /\ build.isdict
    /\ ~ (~ HasProduct(Get(build, "title", <<>>)) \/ Get(build, "arch", "") # "amd64")
    /\ Get(build, "uuid", None) \notin DOMAIN builds

RECURSIVE CollectReleases(_, _)
\* The loop over the first entries: the releases appended, in order.
CollectReleases(entries, builds) ==
    IF entries = <<>> THEN <<>>
    ELSE LET rest == CollectReleases(SubSeq(entries, 1, Len(entries) - 1), builds)
             last == entries[Len(entries)].build
         IN  IF Keeps(last, builds) THEN Append(rest, MakeRelease(last)) ELSE rest

\* _check_uupdump(): payload is what the request gives; builds is
\* self.tracked_data.get('builds', {}). Every failure gives the empty list.
CheckUupdump(payload, builds) ==
    IF payload.kind # "ok" THEN <<>>
    ELSE CollectReleases(FirstEntries(payload.builds), builds)

----------------------------------------------------------------------------
(* The tracking store.                                                     *)

EmptyMap == [x \in {} |-> 0]

\* No timestamp: last_check is <<>> for None and <<t>> for the time t.
Null == <<>>

\* The fresh state _load_tracked returns.
FreshState == [builds |-> EmptyMap, last_check |-> Null, check_count |-> 0]

\* builds[key] = value
Put(builds, key, value) ==
    [x \in DOMAIN builds \cup {key} |-> IF x = key THEN value ELSE builds[x]]

\* The key json.dump writes for a key of a mapping: None becomes "null".
JsonKey(key) == IF key = None THEN "null" ELSE key

\* json.dump followed by json.load on the builds mapping. A key None is written
\* as "null"; if the mapping also holds the key "null" (loaded from the file
\* before None was added), the file holds "null" twice and the later one, None's,
\* is the one json.load keeps.
JsonBuilds(builds) ==
    [k \in {JsonKey(x) : x \in DOMAIN builds} |->
        IF k = "null" /\ None \in DOMAIN builds THEN builds[None] ELSE builds[k]]

\* What json.load gives back for the state json.dump wrote.
JsonState(tracked) == [tracked EXCEPT !.builds = JsonBuilds(tracked.builds)]

\* _load_tracked(): the file is absent, holds text that is not JSON ("badjson",
\* json.JSONDecodeError, caught), holds bytes that are not text ("badbytes",
\* UnicodeDecodeError, not caught) or holds a JSON document.
LoadTracked(f) ==
    IF f.kind = "json" THEN [raised |-> FALSE, data |-> f.data]
    ELSE IF f.kind = "badbytes" THEN [raised |-> TRUE, data |-> FreshState]
    ELSE [raised |-> FALSE, data |-> FreshState]

\* Mutant of Stamp: the counter is left alone.
StampNoCount(tracked, t) == [tracked EXCEPT !.last_check = <<t>>]

\* The first two lines of _save_tracked().
Stamp(tracked, t) ==
    [tracked EXCEPT !.last_check = <<t>>, !.check_count = tracked.check_count + 1]

\* The file _save_tracked() writes.
Written(tracked) == [kind |-> "json", data |-> JsonState(tracked)]

----------------------------------------------------------------------------
(* detect_new_releases.                                                    *)

OneHour == 2

Uupdump == [kind |-> "uupdump", raises |-> FALSE, ret |-> <<>>]
Catalog == [kind |-> "catalog", raises |-> FALSE, ret |-> <<>>]
Github == [kind |-> "github", raises |-> FALSE, ret |-> <<>>]

\* A source put into self.sources by the caller: it raises or returns ret.
Stub(raises, ret) == [kind |-> "stub", raises |-> raises, ret |-> ret]

\* self.sources as __init__ sets it.
DefaultSources == <<Uupdump, Catalog, Github>>

\* source(): [raised, ret].
RunSource(source, payload, builds) ==
    CASE source.kind = "uupdump" ->
            [raised |-> FALSE, ret |-> CheckUupdump(payload, builds)]
      [] source.kind \in {"catalog", "github"} -> [raised |-> FALSE, ret |-> <<>>]
      [] OTHER -> [raised |-> source.raises, ret |-> source.ret]

\* Mutant of ShouldSkip: the comparison is turned around.
ShouldSkipWhenStale(tracked, force, t) ==
    /\ ~ force
    /\ tracked.last_check # Null
    /\ t - tracked.last_check[1] > OneHour

\* The rate limit at the head of detect_new_releases.
ShouldSkip(tracked, force, t) ==
    /\ ~ force
    /\ tracked.last_check # Null
    /\ t - tracked.last_check[1] < OneHour

RECURSIVE GatherStopAtRaise(_, _, _)
\* Mutant of Gather: the loop ends at the first source that raises.
GatherStopAtRaise(sources, payload, builds) ==
    IF sources = <<>> THEN [invoked |-> 0, raised |-> 0, all |-> <<>>]
    ELSE LET r == RunSource(sources[1], payload, builds)
             rest == GatherStopAtRaise(Tail(sources), payload, builds)
         IN  IF r.raised THEN [invoked |-> 1, raised |-> 1, all |-> <<>>]
             ELSE [invoked |-> 1 + rest.invoked, raised |-> rest.raised,
                   all |-> r.ret \o rest.all]

RECURSIVE Gather(_, _, _)
\* The loop over self.sources: how many sources were invoked, how many raised,
\* and all_releases.
Gather(sources, payload, builds) ==
    IF sources = <<>> THEN [invoked |-> 0, raised |-> 0, all |-> <<>>]
    ELSE LET r == RunSource(sources[1], payload, builds)
             rest == Gather(Tail(sources), payload, builds)
         IN  [invoked |-> 1 + rest.invoked,
              raised |-> (IF r.raised THEN 1 ELSE 0) + rest.raised,
              all |-> (IF r.raised THEN <<>> ELSE r.ret) \o rest.all]

RECURSIVE UniqueFirstWins(_)
\* Mutant of Unique: the first record of an identifier is kept.
UniqueFirstWins(all) ==
    IF all = <<>> THEN <<>>
    ELSE LET u == UniqueFirstWins(SubSeq(all, 1, Len(all) - 1))
             r == all[Len(all)]
         IN  IF \E i \in 1..Len(u) : u[i].build_id = r.build_id THEN u
             ELSE Append(u, r)

RECURSIVE Unique(_)
\* list({r.build_id: r for r in all_releases}.values()): an identifier keeps the
\* place of its first record and the value of its last.
Unique(all) ==
    IF all = <<>> THEN <<>>
    ELSE LET u == Unique(SubSeq(all, 1, Len(all) - 1))
             r == all[Len(all)]
             hit == {i \in 1..Len(u) : u[i].build_id = r.build_id}
         IN  IF hit = {} THEN Append(u, r)
             ELSE [i \in 1..Len(u) |-> IF i \in hit THEN r ELSE u[i]]

RECURSIVE Record(_, _)
\* self.tracked_data['builds'][release.build_id] = asdict(release), for each.
Record(builds, releases) ==
    IF releases = <<>> THEN builds
    ELSE Record(Put(builds, releases[1].build_id, releases[1]), Tail(releases))

\* detect_new_releases(force) at time t, the request giving payload: what it
\* returns (ret), the tracking state it leaves (tracked) and how many times it
\* ran _save_tracked (saves).
DetectNewReleases(tracked, sources, force, t, payload) ==
    IF ShouldSkip(tracked, force, t)
    THEN [skipped |-> TRUE, invoked |-> 0, raised |-> 0, all |-> <<>>,
          ret |-> <<>>, saves |-> 0, tracked |-> tracked]
    ELSE LET g == Gather(sources, payload, tracked.builds)
             u == Unique(g.all)
         IN  [skipped |-> FALSE, invoked |-> g.invoked, raised |-> g.raised,
              all |-> g.all, ret |-> u, saves |-> 1,
              tracked |-> Stamp([tracked EXCEPT !.builds = Record(@, u)], t)]

----------------------------------------------------------------------------
(* generate_matrix and main.                                               *)

BuildTypes == <<"standard", "core", "nano">>

Editions == <<1, 6>>

\* Mutant of EditionName: the names are exchanged.
EditionNameSwapped(edition) == IF edition = 1 THEN "Pro" ELSE "Home"

\* 'Home' if edition == 1 else 'Pro'
EditionName(edition) == IF edition = 1 THEN "Home" ELSE "Pro"

\* s.replace(' ', '_').replace('(', '').replace(')', '') on the texts of the model.
Strip(s) ==
    CASE s = "Windows 11" -> "Windows_11"
      [] s = "Windows 10" -> "Windows_10"
      [] s = "(" -> ""
      [] s = "(10.0.26100.1000)" -> "10.0.26100.1000"
      [] OTHER -> s

\* The title with its spaces made underscores and its parentheses removed: the
\* tokens, now joined by underscores, each with its text stripped.
Slug(title) == [i \in 1..Len(title) |-> [title[i] EXCEPT !.s = Strip(@)]]

\* The entry of one release, build type and edition.
MatrixEntry(release, build_type, edition) ==
    [version |-> release.version,
     build |-> release.build_number,
     iso_url |-> release.iso_url,
     build_type |-> build_type,
     edition |-> edition,
     edition_name |-> EditionName(edition),
     title |-> Slug(release.title)]

\* The two inner loops for one release: build types outside, editions inside.
ReleaseEntries(release) ==
    [j \in 1..(Len(BuildTypes) * Len(Editions)) |->
        MatrixEntry(release,
                    BuildTypes[((j - 1) \div Len(Editions)) + 1],
                    Editions[((j - 1) % Len(Editions)) + 1])]

RECURSIVE Include(_)
\* matrix['include'] after the loop over the releases.
Include(releases) ==
    IF releases = <<>> THEN <<>>
    ELSE ReleaseEntries(releases[1]) \o Include(Tail(releases))

\* generate_matrix(releases): a JSON object with the one key include.
GenerateMatrix(releases) == [keys |-> {"include"}, include |-> Include(releases)]

\* The literal {} main writes when nothing is new.
EmptyObject == [keys |-> {}, include |-> <<>>]

\* Mutant of OutputLines: the matrix is left out when nothing is new.
OutputLinesShort(new_releases) ==
    IF new_releases = <<>>
    THEN << [key |-> "has_new", val |-> FALSE],
            [key |-> "new_releases", val |-> <<>>] >>
    ELSE << [key |-> "has_new", val |-> TRUE],
            [key |-> "new_releases", val |-> new_releases],
            [key |-> "releases_matrix", val |-> GenerateMatrix(new_releases)] >>

\* The lines main writes to the output file.
OutputLines(new_releases) ==
    IF new_releases = <<>>
    THEN << [key |-> "has_new", val |-> FALSE],
            [key |-> "new_releases", val |-> <<>>],
            [key |-> "releases_matrix", val |-> EmptyObject] >>
    ELSE << [key |-> "has_new", val |-> TRUE],
            [key |-> "new_releases", val |-> new_releases],
            [key |-> "releases_matrix", val |-> GenerateMatrix(new_releases)] >>

----------------------------------------------------------------------------
(* Bounds and the inputs the model draws from.                             *)

MaxTime == 3

MaxChecks == 2

T24 == <<W("Windows 11"), W("version"), V("24H2"), D("(10.0.26100.1000)")>>

TInsider == <<W("Windows 11"), W("Insider"), W("Preview"), P(26200)>>

TWin10 == <<W("Windows 10"), W("version"), V("22H2")>>

\* A build of the API payload with every key present.
Build(uuid, title, arch) ==
    [isdict |-> TRUE, has |-> {"uuid", "title", "arch", "build"},
     uuid |-> uuid, title |-> title, arch |-> arch, build |-> "26100.1"]

\* A build without the uuid key.
BuildNoUuid(title, arch) ==
    [isdict |-> TRUE, has |-> {"title", "arch", "build"},
     uuid |-> None, title |-> title, arch |-> arch, build |-> "26100.1"]

\* A value of the builds mapping that is no mapping (a string, say).
NotABuild ==
    [isdict |-> FALSE, has |-> {}, uuid |-> None, title |-> <<>>, arch |-> "",
     build |-> ""]

Key(n) == [digits |-> TRUE, n |-> n]

\* A key that is not all digits, such as "x7".
WordKey(n) == [digits |-> FALSE, n |-> n]

Entry(key, build) == [key |-> key, build |-> build]

Ok(entries) == [kind |-> "ok", builds |-> entries]

\* A request that fails, or a response of the wrong shape.
Failed(kind) == [kind |-> kind, builds |-> <<>>]

Payloads ==
    { Failed("neterror"), Failed("notdict"), Failed("noresponse"),
      Ok(<<>>),
      Ok(<<Entry(Key(1), Build("a", T24, "amd64"))>>),
      Ok(<<Entry(Key(2), Build("a", T24, "amd64")),
           Entry(Key(1), Build("a", TInsider, "amd64"))>>),
      Ok(<<Entry(Key(1), Build("b", TInsider, "amd64")),
           Entry(Key(2), BuildNoUuid(T24, "amd64"))>>),
      Ok(<<Entry(Key(1), Build("a", T24, "arm64")),
           Entry(WordKey(1), NotABuild),
           Entry(Key(2), Build("b", TWin10, "amd64"))>>) }

RA24 == MakeRelease(Build("a", T24, "amd64"))

RAInsider == MakeRelease(Build("a", TInsider, "amd64"))

RB == MakeRelease(Build("b", TInsider, "amd64"))

\* The values of self.sources: as constructed, or set by the caller to stubs.
SourceLists ==
    { DefaultSources,
      <<Stub(TRUE, <<>>), Uupdump>>,
      <<Stub(FALSE, <<RA24>>), Stub(TRUE, <<>>), Stub(FALSE, <<RAInsider, RB>>)>> }

\* The tracking files a run can find.
InitFiles ==
    { [kind |-> "absent", data |-> FreshState],
      [kind |-> "badjson", data |-> FreshState],
      [kind |-> "badbytes", data |-> FreshState],
      [kind |-> "json",
       data |-> [builds |-> [k \in {"a"} |-> RA24], last_check |-> <<0>>,
                 check_count |-> 1]] }

----------------------------------------------------------------------------
(* The state machine.                                                      *)

NoDetector == [alive |-> FALSE, tracked_data |-> FreshState, sources |-> <<>>]

NoCtor == [done |-> FALSE, raised |-> FALSE, kind |-> "", data |-> FreshState]

NoSummary == [valid |-> FALSE, at |-> 0, force |-> FALSE, skipped |-> FALSE]

NoCall ==
    [done |-> FALSE, force |-> FALSE, at |-> 0, pre |-> FreshState,
     sources |-> <<>>, skipped |-> FALSE, invoked |-> 0, raised |-> 0,
     all |-> <<>>, ret |-> <<>>, saves |-> 0, post |-> FreshState,
     before |-> NoSummary]

NoMain == [done |-> FALSE, completed |-> FALSE, ret |-> <<>>]

\* The observation of a call that gave d.
CallOf(d, tracked, sources, force, before) ==
    [done |-> TRUE, force |-> force, at |-> now, pre |-> tracked,
     sources |-> sources, skipped |-> d.skipped, invoked |-> d.invoked,
     raised |-> d.raised, all |-> d.all, ret |-> d.ret, saves |-> d.saves,
     post |-> d.tracked, before |-> before]

Init ==
    /\ now = 0
    /\ file \in InitFiles
    /\ det = NoDetector
    /\ out = <<>>
    /\ ctor = NoCtor
    /\ call = NoCall
    /\ prev = NoSummary
    /\ mainrun = NoMain
    /\ runs = <<>>
    /\ fn = "none"
    /\ arg = <<>>
    /\ res = <<>>

\* ReleaseDetector(tracking_file): __init__.
Construct ==
    /\ fn = "none"
    /\ ~ det.alive
    /\ LET l == LoadTracked(file)
       IN  /\ ctor' = [done |-> TRUE, raised |-> l.raised, kind |-> file.kind,
                       data |-> l.data]
           /\ det' = IF l.raised THEN NoDetector
                     ELSE [alive |-> TRUE, tracked_data |-> l.data,
                           sources |-> DefaultSources]
    /\ prev' = NoSummary
    /\ call' = NoCall
    /\ mainrun' = NoMain
    /\ UNCHANGED <<now, file, out, runs, fn, arg, res>>

\* detector.sources = sources, by the caller.
SetSources(sources) ==
    /\ det.alive
    /\ det.sources # sources
    /\ det' = [det EXCEPT !.sources = sources]
    /\ call' = NoCall
    /\ UNCHANGED <<now, file, out, ctor, prev, mainrun, runs, fn, arg, res>>

\* detector.detect_new_releases(force)
Detect(force, payload) ==
    /\ det.alive
    /\ det.tracked_data.check_count < MaxChecks
    /\ LET d == DetectNewReleases(det.tracked_data, det.sources, force, now, payload)
       IN  /\ det' = [det EXCEPT !.tracked_data = d.tracked]
           /\ file' = IF d.saves > 0 THEN Written(d.tracked) ELSE file
           /\ call' = CallOf(d, det.tracked_data, det.sources, force, prev)
           /\ prev' = [valid |-> TRUE, at |-> now, force |-> force,
                       skipped |-> d.skipped]
    /\ mainrun' = NoMain
    /\ UNCHANGED <<now, out, ctor, runs, fn, arg, res>>

\* The process ends and its detector with it.
Close ==
    /\ det.alive
    /\ det' = NoDetector
    /\ call' = NoCall
    /\ prev' = NoSummary
    /\ UNCHANGED <<now, file, out, ctor, mainrun, runs, fn, arg, res>>

\* main(), with --force or without: construct, detect, write the output file.
Main(force, payload) ==
    /\ fn = "none"
    /\ ~ det.alive
    /\ LET l == LoadTracked(file)
           d == DetectNewReleases(l.data, DefaultSources, force, now, payload)
       IN  /\ ctor' = [done |-> TRUE, raised |-> l.raised, kind |-> file.kind,
                       data |-> l.data]
           /\ IF l.raised
              THEN /\ mainrun' = [done |-> TRUE, completed |-> FALSE, ret |-> <<>>]
                   /\ call' = NoCall
                   /\ UNCHANGED <<file, out, runs>>
              ELSE /\ l.data.check_count < MaxChecks
                   /\ mainrun' = [done |-> TRUE, completed |-> TRUE, ret |-> d.ret]
                   /\ call' = CallOf(d, l.data, DefaultSources, force, NoSummary)
                   /\ file' = IF d.saves > 0 THEN Written(d.tracked) ELSE file
                   /\ out' = OutputLines(d.ret)
                   /\ runs' = IF d.saves > 0
                              THEN Append(runs, {d.ret[i].build_id : i \in 1..Len(d.ret)})
                              ELSE runs
    /\ UNCHANGED <<now, det, prev, fn, arg, res>>

\* Time passes.
Tick ==
    /\ fn = "none"
    /\ now < MaxTime
    /\ now' = now + 1
    /\ call' = NoCall
    /\ mainrun' = NoMain
    /\ UNCHANGED <<file, det, out, ctor, prev, runs, fn, arg, res>>

Next ==
    \/ Construct
    \/ \E sources \in SourceLists : SetSources(sources)
    \/ \E force \in BOOLEAN, payload \in Payloads : Detect(force, payload)
    \/ Close
    \/ Tick

\* The detector used as a library: constructed, called, dropped.
Spec == Init /\ [][Next]_vars

NextMain ==
    \/ \E force \in BOOLEAN, payload \in Payloads : Main(force, payload)
    \/ Tick

\* Runs of main, one after the other, on one tracking file.
SpecMain == Init /\ [][NextMain]_vars

----------------------------------------------------------------------------
(* The pure functions, each applied to inputs drawn from a bounded set.    *)

\* The program at rest, while a function is looked at on its own.
Idle ==
    /\ now = 0
    /\ file = [kind |-> "absent", data |-> FreshState]
    /\ det = NoDetector
    /\ out = <<>>
    /\ ctor = NoCtor
    /\ call = NoCall
    /\ prev = NoSummary
    /\ mainrun = NoMain
    /\ runs = <<>>

\* The build numbers around every edge of the range table.
BuildNumbers ==
    (22600..22650) \cup (22990..23010) \cup (26090..26230) \cup (26990..27010)
        \cup (27990..28010) \cup (28990..29010) \cup {10000, 99999}

\* Titles with the build number b in them.
TitlesWith(b) ==
    { <<W("Windows 11"), P(b)>>,
      <<W("Windows 11"), W("Insider"), W("Preview"), P(b), W("amd64")>>,
      <<W("Update"), W("PREVIEW"), P(b)>>,
      <<W("Windows 11"), G("24H2x", "24H2"), P(b)>>,
      <<W("Update"), D("(10.0.26100.1000)"), P(b), P(26100)>>,
      <<W("Windows 11"), P(b), V("24h2")>>,
      <<W("Windows 11"), W("Version"), G("24H2x", "24H2"), P(b)>>,
      <<W("Windows 11"), V("22h2"), W("VERSION"), V("25H2"), P(b)>> }

VersionTitles ==
    UNION {TitlesWith(b) : b \in BuildNumbers}
        \cup {T24, TInsider, TWin10, <<>>, <<W("Windows 11")>>,
              <<W("Windows 11"), W("INSIDER")>>}

InitVersion == Idle /\ fn = "extract_version" /\ arg \in VersionTitles /\ res = <<>>

ApplyExtractVersion ==
    /\ fn = "extract_version"
    /\ fn' = "extract_version done"
    /\ res' = ExtractVersion(arg)
    /\ UNCHANGED <<progVars, arg>>

\* _extract_version on its own.
SpecVersion == InitVersion /\ [][ApplyExtractVersion]_vars

MaxReleases == 3

RNone == MakeRelease(BuildNoUuid(T24, "amd64"))

ReleasePool == {RA24, RAInsider, RB, RNone}

RECURSIVE SeqsUpTo(_, _)
\* The sequences over S of length 0..n.
SeqsUpTo(S, n) ==
    IF n = 0 THEN {<<>>}
    ELSE LET shorter == SeqsUpTo(S, n - 1)
         IN  shorter \cup {Append(q, x) : q \in shorter, x \in S}

InitMatrix ==
    Idle /\ fn = "generate_matrix" /\ arg \in SeqsUpTo(ReleasePool, MaxReleases)
         /\ res = <<>>

ApplyGenerateMatrix ==
    /\ fn = "generate_matrix"
    /\ fn' = "generate_matrix done"
    /\ res' = GenerateMatrix(arg)
    /\ UNCHANGED <<progVars, arg>>

\* generate_matrix on its own.
SpecMatrix == InitMatrix /\ [][ApplyGenerateMatrix]_vars

\* n builds that are not for Windows 11, under the keys "1".."n", but for the
\* last, which is a new Windows 11 build for amd64.
Fillers(n) ==
    [k \in 1..n |->
        Entry(Key(k), IF k = n THEN Build("f", T24, "amd64")
                      ELSE Build("w", TWin10, "amd64"))]

FillerCounts == {0, 1, ProcessLimit - 2, ProcessLimit - 1, ProcessLimit}

\* Keys that sort before the fillers' (0, and two that are not digits) and after.
SpecialKeys == {Key(0), WordKey(1), WordKey(2), Key(100)}

SpecialBuilds ==
    { Build("a", T24, "amd64"), Build("b", TInsider, "amd64"),
      Build("a", T24, "arm64"), Build("a", T24, "AMD64"),
      BuildNoUuid(T24, "amd64"), Build("b", TWin10, "amd64"), NotABuild }

FetchShapes ==
    { x \in SpecialKeys \X SpecialBuilds \X FillerCounts \X SpecialKeys \X SpecialBuilds :
        x[1] # x[4] }

\* Listings: one build, the fillers, another build, in the mapping's order.
FetchPayloads ==
    { Ok(<<Entry(x[1], x[2])>> \o Fillers(x[3]) \o <<Entry(x[4], x[5])>>) :
        x \in FetchShapes }
      \cup {Failed("neterror"), Failed("buildsnotdict")}

FetchTracked ==
    { EmptyMap, [k \in {"a"} |-> RA24], [k \in {"b", "f"} |-> RB] }

InitFetch ==
    /\ Idle
    /\ fn = "check_uupdump"
    /\ arg \in [payload : FetchPayloads, builds : FetchTracked]
    /\ res = <<>>

ApplyCheckUupdump ==
    /\ fn = "check_uupdump"
    /\ fn' = "check_uupdump done"
    /\ res' = CheckUupdump(arg.payload, arg.builds)
    /\ UNCHANGED <<progVars, arg>>

\* _check_uupdump on its own.
SpecFetch == InitFetch /\ [][ApplyCheckUupdump]_vars

----------------------------------------------------------------------------
(* The claims.                                                             *)

\* The identifiers of a sequence of releases.
Ids(releases) == {releases[i].build_id : i \in 1..Len(releases)}

\* The tracking file holds the state the call left, stamped at the call's time.
SavedByCall ==
    /\ call.saves = 1
    /\ call.post.check_count = call.pre.check_count + 1
    /\ call.post.last_check = <<call.at>>
    /\ file.kind = "json"
    /\ file.data.check_count = call.post.check_count
    /\ file.data.last_check = call.post.last_check

\* C1 as stated: every call to detect_new_releases, forced or not, new release
\* or none, saves the tracking state exactly once: check_count grows by one and
\* last_check is the time of the call.
C1_EveryCallSavesOnce == call.done => SavedByCall

\* C1 as amended: every call that the rate limit does not short-circuit saves
\* the tracking state exactly once (check_count grows by one, last_check is the
\* time of the call, the file holds both); a short-circuited call saves nothing
\* and leaves the tracking state as it was.
C1_CallSavesOnceUnlessSkipped ==
    call.done =>
        IF call.skipped
        THEN call.saves = 0 /\ call.post = call.pre
        ELSE SavedByCall

\* A call that was not forced, found nothing new, and saved.
C1_Witness ==
    /\ call.done
    /\ ~ call.skipped
    /\ ~ call.force
    /\ call.ret = <<>>
    /\ call.pre.check_count > 0
    /\ call.post.check_count = call.pre.check_count + 1

\* C2: a forced call returns no release whose build_id was a key of the builds
\* map when the call began, whichever source returned it.
C2_ForcedCallDropsTracked ==
    (call.done /\ call.force) =>
        \A i \in 1..Len(call.ret) : call.ret[i].build_id \notin DOMAIN call.pre.builds

\* The call was not forced and last_check is less than an hour before it.
RecentlyChecked ==
    /\ ~ call.force
    /\ call.pre.last_check # Null
    /\ call.at - call.pre.last_check[1] < OneHour

QueriedNothing == call.invoked = 0 /\ call.ret = <<>>

\* C3 as stated: a non-forced call less than an hour after last_check invokes
\* no source and returns the empty list; and of two consecutive non-forced calls
\* on one detector less than an hour apart, the second queries no source.
C3_SecondCallWithinHourSkips ==
    call.done =>
        /\ RecentlyChecked => QueriedNothing
        /\ ( /\ ~ call.force
             /\ call.before.valid
             /\ ~ call.before.force
             /\ call.at - call.before.at < OneHour ) => call.invoked = 0

\* C3 as amended: a non-forced call less than an hour after last_check invokes
\* no source and returns the empty list; and a non-forced call less than an
\* hour after a call on the same detector that was not itself short-circuited
\* queries no source.
C3_CallWithinHourOfCheckSkips ==
    call.done =>
        /\ RecentlyChecked => QueriedNothing
        /\ ( /\ ~ call.force
             /\ call.before.valid
             /\ ~ call.before.skipped
             /\ call.at - call.before.at < OneHour ) => QueriedNothing

\* Two non-forced calls on one detector, half an hour apart: the first checked,
\* the second was short-circuited.
C3_Witness ==
    /\ call.done
    /\ ~ call.force
    /\ call.before.valid
    /\ ~ call.before.force
    /\ ~ call.before.skipped
    /\ call.at - call.before.at = 1
    /\ Len(call.sources) > 0
    /\ call.skipped

\* C4: constructing a ReleaseDetector never raises; from an absent file or one
\* that holds no valid document the loaded state is the fresh one, and the
\* detect_new_releases call that follows leaves a tracking file that is a
\* document with builds, last_check and check_count.
C4_ConstructNeverRaises ==
    /\ ctor.done => ~ ctor.raised
    /\ (ctor.done /\ ctor.kind \in {"absent", "badjson", "badbytes"}) =>
            ctor.data = FreshState
    /\ (call.done /\ ~ call.skipped /\ ctor.kind \in {"absent", "badjson", "badbytes"}) =>
            /\ file.kind = "json"
            /\ DOMAIN file.data = {"builds", "last_check", "check_count"}

\* Some source of the call raises.
SomeSourceRaises ==
    \E i \in 1..Len(call.sources) :
        call.sources[i].kind = "stub" /\ call.sources[i].raises

\* C5: in a call that is not short-circuited and in which a source raises,
\* every source is invoked, what the other sources return is returned and
\* recorded, and the tracking state is saved: the call completes.
C5_RaisingSourceIsIsolated ==
    (call.done /\ ~ call.skipped /\ SomeSourceRaises) =>
        /\ call.invoked = Len(call.sources)
        /\ \A i \in 1..Len(call.sources) :
              (call.sources[i].kind = "stub" /\ ~ call.sources[i].raises) =>
                  \A j \in 1..Len(call.sources[i].ret) :
                      /\ call.sources[i].ret[j].build_id \in Ids(call.ret)
                      /\ call.sources[i].ret[j].build_id \in DOMAIN call.post.builds
        /\ call.saves = 1
        /\ file.kind = "json"
        /\ file.data.last_check = <<call.at>>

\* A source raised between two sources that returned releases.
C5_Witness ==
    /\ call.done
    /\ ~ call.skipped
    /\ Len(call.sources) = 3
    /\ call.sources[2].raises
    /\ call.invoked = 3
    /\ Ids(call.ret) = {"a", "b"}

\* The last record with identifier id among all the sources returned.
LastOf(id) ==
    call.all[CHOOSE i \in 1..Len(call.all) :
                /\ call.all[i].build_id = id
                /\ \A j \in 1..Len(call.all) : call.all[j].build_id = id => j <= i]

\* C6: of the records the sources return for one build_id, the call returns
\* exactly one, the builds map holds exactly that one, and it is the last in
\* the order the sources produced them; every release returned is a key of the
\* builds map after the call.
C6_LastSeenWins ==
    (call.done /\ ~ call.skipped) =>
        /\ \A id \in Ids(call.all) :
              /\ Cardinality({k \in 1..Len(call.ret) : call.ret[k].build_id = id}) = 1
              /\ \A k \in 1..Len(call.ret) :
                    call.ret[k].build_id = id => call.ret[k] = LastOf(id)
              /\ id \in DOMAIN call.post.builds
              /\ call.post.builds[id] = LastOf(id)
        /\ \A k \in 1..Len(call.ret) : call.ret[k].build_id \in DOMAIN call.post.builds

\* Two different records with one identifier were returned, the later one kept.
C6_Witness ==
    /\ call.done
    /\ \E i, j \in 1..Len(call.all) :
          /\ i < j
          /\ call.all[i].build_id = call.all[j].build_id
          /\ call.all[i].title # call.all[j].title
    /\ Len(call.ret) < Len(call.all)

\* The entries the matrix holds for the i-th release: six, in a row.
EntriesOf(include, i) == {j \in 1..Len(include) : 6 * (i - 1) < j /\ j <= 6 * i}

\* C7: a run of main that completes writes the output file with exactly the
\* three lines has_new, new_releases and releases_matrix; has_new is true
\* exactly when detect_new_releases returned a release; if false, the list and
\* the matrix object are empty; if true, the matrix holds six entries for each
\* release of new_releases.
C7_OutputFile ==
    (mainrun.done /\ mainrun.completed) =>
        /\ Len(out) = 3
        /\ out[1].key = "has_new"
        /\ out[2].key = "new_releases"
        /\ out[3].key = "releases_matrix"
        /\ out[1].val = (Len(mainrun.ret) > 0)
        /\ out[2].val = mainrun.ret
        /\ ~ out[1].val => (out[2].val = <<>> /\ out[3].val.keys = {})
        /\ out[1].val =>
              /\ out[3].val.keys = {"include"}
              /\ Len(out[3].val.include) = 6 * Len(out[2].val)
              /\ \A i \in 1..Len(out[2].val) :
                    \A j \in EntriesOf(out[3].val.include, i) :
                        /\ out[3].val.include[j].version = out[2].val[i].version
                        /\ out[3].val.include[j].iso_url = out[2].val[i].iso_url

\* A run of main found two new releases and wrote twelve matrix entries.
C7_Witness ==
    /\ mainrun.done
    /\ mainrun.completed
    /\ Len(mainrun.ret) = 2
    /\ Len(out) = 3
    /\ Len(out[3].val.include) = 12

\* C8: generate_matrix on N releases returns N * 3 * 2 entries; for each
\* release every pair of build type (standard, core, nano) and edition (1, 6)
\* appears exactly once, with the release's version, build number and URL, and
\* edition_name is Home exactly for edition 1 and Pro exactly for edition 6.
C8_MatrixEntries ==
    fn = "generate_matrix done" =>
        /\ Len(res.include) = Len(arg) * 3 * 2
        /\ \A i \in 1..Len(arg) :
              \A bt \in {"standard", "core", "nano"}, ed \in {1, 6} :
                  /\ Cardinality({j \in EntriesOf(res.include, i) :
                                    /\ res.include[j].build_type = bt
                                    /\ res.include[j].edition = ed}) = 1
                  /\ \A j \in EntriesOf(res.include, i) :
                        /\ res.include[j].version = arg[i].version
                        /\ res.include[j].build = arg[i].build_number
                        /\ res.include[j].iso_url = arg[i].iso_url
        /\ \A j \in 1..Len(res.include) :
              /\ res.include[j].edition \in {1, 6}
              /\ res.include[j].edition_name = "Home" <=> res.include[j].edition = 1
              /\ res.include[j].edition_name = "Pro" <=> res.include[j].edition = 6

\* The matrix of three releases, two of them with one identifier.
C8_Witness ==
    /\ fn = "generate_matrix done"
    /\ Len(arg) = 3
    /\ arg[1].build_id = arg[3].build_id
    /\ arg[1].version # arg[3].version
    /\ Len(res.include) = 18

\* The title holds no explicit version token: neither pattern matches.
NoVersionToken(title) ==
    /\ ~ \E i \in 1..Len(title) : title[i].k = "ver"
    /\ ~ \E i \in 1..(Len(title) - 1) :
            /\ title[i].k = "word"
            /\ title[i].s \in {"version", "Version", "VERSION"}
            /\ title[i + 1].k \in {"ver", "glued"}

\* The first five-digit number after an opening parenthesis, or -1.
BuildNumberOf(title) ==
    LET at == {i \in 1..Len(title) : title[i].k = "paren"}
    IN  IF at = {} THEN -1
        ELSE title[CHOOSE i \in at : \A j \in at : i <= j].n

InSomeRange(b) ==
    \/ 26100 <= b /\ b < 27000
    \/ 28000 <= b /\ b < 29000
    \/ 22621 <= b /\ b < 23000

SaysInsider(title) ==
    \E i \in 1..Len(title) :
        title[i].s \in {"Insider", "INSIDER", "insider", "Preview", "PREVIEW", "preview"}

\* C9: for a title with no explicit version token and the build number b after
\* an opening parenthesis, 26100 <= b < 26200 gives 24H2 and 26200 <= b < 27000
\* gives 25H2, so that no b is labelled Insider-26H2; a b outside every range
\* gives Insider-Preview if the title says insider or preview, else Unknown.
C9_RangeTable ==
    (fn = "extract_version done" /\ NoVersionToken(arg) /\ BuildNumberOf(arg) >= 0) =>
        LET b == BuildNumberOf(arg)
        IN  /\ (26100 <= b /\ b < 26200) => res = "24H2"
            /\ (26200 <= b /\ b < 27000) => res = "25H2"
            /\ res # "Insider-26H2"
            /\ ~ InSomeRange(b) =>
                  res = IF SaysInsider(arg) THEN "Insider-Preview" ELSE "Unknown"

\* A build number of the overlap, in a title without a version token.
C9_Witness ==
    /\ fn = "extract_version done"
    /\ NoVersionToken(arg)
    /\ BuildNumberOf(arg) = 26220
    /\ res = "25H2"

\* The numeric value a key of the listing sorts by.
NumericKey(key) == IF key.digits THEN key.n ELSE 0

\* How many entries of the listing come before the i-th in ascending numeric
\* key order, entries with equal values staying in the listing's order.
Rank(entries, i) ==
    Cardinality({j \in 1..Len(entries) :
        \/ NumericKey(entries[j].key) < NumericKey(entries[i].key)
        \/ NumericKey(entries[j].key) = NumericKey(entries[i].key) /\ j < i})

\* The i-th entry of the listing is a new Windows 11 build for amd64.
Acceptable(entries, i, builds) ==
    /\ entries[i].build.isdict
    /\ "title" \in entries[i].build.has
    /\ HasProduct(entries[i].build.title)
    /\ "arch" \in entries[i].build.has
    /\ entries[i].build.arch = "amd64"
    /\ (IF "uuid" \in entries[i].build.has THEN entries[i].build.uuid ELSE None)
          \notin DOMAIN builds

\* C10: _check_uupdump looks at the first 30 keys in ascending numeric order
\* only; every release it returns comes from one of these entries, which is a
\* mapping whose title holds Windows 11, whose arch is amd64 exactly and whose
\* identifier is no key of the builds map; it returns at most 30 releases.
C10_FirstThirty ==
    fn = "check_uupdump done" =>
        /\ Len(res) <= 30
        /\ \A k \in 1..Len(res) :
              \E i \in 1..Len(arg.payload.builds) :
                  /\ Rank(arg.payload.builds, i) < 30
                  /\ Acceptable(arg.payload.builds, i, arg.builds)
                  /\ res[k].build_id =
                        (IF "uuid" \in arg.payload.builds[i].build.has
                         THEN arg.payload.builds[i].build.uuid ELSE None)
                  /\ res[k].title = arg.payload.builds[i].build.title
                  /\ res[k].architecture = "amd64"

\* A listing of 32 builds: a new build among the first 30 is returned, a new
\* build after them is not.
C10_Witness ==
    /\ fn = "check_uupdump done"
    /\ Len(arg.payload.builds) = 32
    /\ \E i \in 1..32 :
          /\ Rank(arg.payload.builds, i) >= 30
          /\ Acceptable(arg.payload.builds, i, arg.builds)
          /\ arg.payload.builds[i].build.uuid \notin Ids(res)
    /\ Len(res) > 0

\* C11: over runs of main that share one tracking file and take their
\* candidates from the UUP Dump fetcher, a build is returned as new by at most
\* one run: what a run returned and saved, no later run returns again, a build
\* without uuid included; and no run removes an identifier from the builds map
\* of the tracking file.
C11_ReturnedByAtMostOneRun ==
    /\ \A i, j \in 1..Len(runs) : i < j => runs[i] \cap runs[j] = {}
    /\ (mainrun.done /\ mainrun.completed) =>
            \A id \in DOMAIN call.pre.builds :
                file.kind = "json" /\ id \in DOMAIN file.data.builds

====
